---- MODULE Spec2Model ----
(***************************************************************************)
(* State-machine model of the EOS traffic shaping monitor (package main).  *)
(*                                                                         *)
(* The repository holds three revisions of package main:                   *)
(*   "part_000"  src/unnamed/part_000            bytes families, thread    *)
(*               loop family, three entity kinds, endpoint toggle          *)
(*   "main_1"    src/main.go lines 1-226         bytes families, three     *)
(*               entity kinds                                              *)
(*   "main_228"  src/main.go lines 228-442       bytes and IOPS families,  *)
(*               two entity kinds                                          *)
(* The variable build names the revision a behaviour runs; it never        *)
(* changes.                                                                *)
(*                                                                         *)
(* One step of the reduction loop is one call into the Prometheus gauge    *)
(* vectors (Reset, or WithLabelValues(...).Set), because the HTTP handler  *)
(* goroutine reads the vectors between any two such calls.                 *)
(***************************************************************************)
EXTENDS Integers, Sequences, FiniteSets, TLC

VARIABLES
    build,        \* revision of package main that runs
    enableFlag,   \* value of the -enable-prometheus flag (part_000 only)
    mainPc,       \* position of the main goroutine
    httpPc,       \* position of the goroutine running http.ListenAndServe
    exitCause,    \* "" while the process runs, else the log.Fatal site that ended it
    report,       \* the message returned by the last stream.Recv()
    ip,           \* index of the next gauge-vector call of the current iteration
    registry,     \* family name -> (label values -> gauge value)
    scraped,      \* <<body>> right after a step that answered GET /metrics, else <<>>
    \* ---- history variables (never read by the modelled code) ----
    stale,        \* <<family, labels>> held now and last set before the previous report
    firstCall,    \* family name -> first call on it in this iteration: "none", "Reset", "Set"
    reduced,      \* TRUE once an iteration of the loop has completed
    repeated,     \* TRUE iff the report in the loop body equals the one before it
    prevRegistry, \* the registry as it was when stream.Recv() was last called
    \* ---- one call of humanizeBytes, looked at on its own ----
    hPc,          \* "idle" (no call looked at), "loop" (in the for loop), "done"
    hIn,          \* the argument s
    hVal,         \* the local val
    hI,           \* the local i
    hOut          \* the string returned, "" before the return

hvars == <<hPc, hIn, hVal, hI, hOut>>

vars == <<build, enableFlag, mainPc, httpPc, exitCause, report, ip, registry,
          scraped, stale, firstCall, reduced, repeated, prevRegistry, hvars>>

-----------------------------------------------------------------------------
(* Bounds of the model *)

MaxEntities == 2     \* entries in one report, over all ranked lists
MaxSamples == 2      \* RateStats of one entry
MaxTotal == 2        \* RateStats and thread loop blocks in one report

-----------------------------------------------------------------------------
(* Revisions *)

Builds == {"part_000", "main_1", "main_228"}

\* part_000:39-49 registers threadLoopMicros; the other revisions have none.
HasThreadLoop(b) == b = "part_000"

\* main.go:266-284 registers readOps and writeOps; main.go:24 removed them.
HasIops(b) == b = "main_228"

\* part_000:155, main.go:118 call printAndExportGroups; main.go:351-352 do not.
HasGroups(b) == b # "main_228"

EntityFamilies(b) ==
    IF HasIops(b) THEN <<"readBytes", "writeBytes", "readOps", "writeOps">>
    ELSE <<"readBytes", "writeBytes">>

Range(s) == {s[i] : i \in 1..Len(s)}

Families(b) ==
    Range(EntityFamilies(b)) \cup (IF HasThreadLoop(b) THEN {"threadLoopMicros"} ELSE {})

\* The estimators named in the request, in request order; the server reports
\* windows among them.  An estimator is modelled by its position in this list.
RequestedEstimators(b) ==
    CASE b = "part_000" ->
           <<"EMA_1_SECONDS", "EMA_5_SECONDS", "SMA_1_SECONDS",
             "SMA_5_SECONDS", "SMA_1_MINUTES", "SMA_5_MINUTES">>
      [] b = "main_1" ->
           <<"EMA_5_SECONDS", "EMA_1_MINUTES", "EMA_5_MINUTES",
             "SMA_5_SECONDS", "SMA_1_MINUTES", "SMA_5_MINUTES">>
      [] OTHER -> <<"WINDOW_LIVE_5S", "WINDOW_AVG_1M">>

\* s.Window.String()
WindowString(b, w) == RequestedEstimators(b)[w]

Digits == <<"0", "1", "2", "3", "4", "5", "6", "7", "8", "9">>

RECURSIVE NatString(_)
NatString(n) ==
    IF n < 10 THEN Digits[n + 1] ELSE NatString(n \div 10) \o Digits[(n % 10) + 1]

\* strconv.Itoa
Itoa(n) == IF n < 0 THEN "-" \o NatString(-n) ELSE NatString(n)

\* Mutant of UserLabel: users are exported under the label of applications.
UserLabelAsApp(b) == "app"

\* entity_type label of each helper
AppLabel(b) == "app"
UserLabel(b) == IF b = "main_228" THEN "uid" ELSE "user"
GroupLabel(b) == "group"

-----------------------------------------------------------------------------
(* Messages of the stream *)

\* Rate values a RateStats may carry.  iopsOnWire says whether the server put
\* the IOPS fields on the wire; the decoded struct holds 0 for an absent field.
Profiles ==
    { [r |-> 1000, w |-> 0,    ro |-> 0, wo |-> 0, has |-> FALSE],
      [r |-> 2048, w |-> 1000, ro |-> 5, wo |-> 0, has |-> TRUE] }

\* The estimators the server reports on: the first one of the request.
Windows(b) == {Len(RequestedEstimators(b)) - Len(Tail(RequestedEstimators(b)))}

RateStats(b) ==
    { [Window |-> w, BytesReadPerSec |-> p.r, BytesWrittenPerSec |-> p.w,
       IopsRead |-> p.ro, IopsWrite |-> p.wo, iopsOnWire |-> p.has]
        : w \in Windows(b), p \in Profiles }

AppNames(b) == IF HasIops(b) THEN {"1001"} ELSE {"jobA", "1001"}
Uids == {1001}
Gids == {1001}

\* Thread loop statistics blocks: <<>> is a nil pointer, <<block>> a block.
LoopStats ==
    { [MeanElapsedTimeMicroSec |-> 20, MinElapsedTimeMicroSec |-> 10,
       MaxElapsedTimeMicroSec |-> 30] }
OptLoopStats(b) ==
    IF HasThreadLoop(b) THEN {<<>>} \cup {<<s>> : s \in LoopStats} ELSE {<<>>}

\* The entries the server may rank, of any kind, each with n RateStats.
Ranked(b, n) ==
    LET stats == [1..n -> RateStats(b)] IN
       [kind : {"app"}, id : AppNames(b), Stats : stats]
       \cup [kind : {"user"}, id : Uids, Stats : stats]
       \cup (IF HasGroups(b) THEN [kind : {"group"}, id : Gids, Stats : stats] ELSE {})

RECURSIVE AllStats(_)
AllStats(ranking) ==
    IF ranking = <<>> THEN <<>> ELSE Head(ranking).Stats \o AllStats(Tail(ranking))

\* No two RateStats of the ranking carry the same rates.
DistinctRates(ranking) ==
    LET all == AllStats(ranking) IN
    \A i, j \in 1..Len(all) :
        i # j => all[i].BytesReadPerSec # all[j].BytesReadPerSec

\* Rankings of at most MaxEntities entries holding at most total RateStats:
\* every entry has between one and MaxSamples of them, and the rates of the
\* RateStats of one ranking differ.
Rankings(b, total) ==
    LET upTo(n) == UNION {Ranked(b, k) : k \in 1..(IF n < MaxSamples THEN n ELSE MaxSamples)}
        RECURSIVE extend(_, _)
        extend(len, left) ==
            IF len = 0 THEN {<<>>}
            ELSE {<<>>} \cup
                 UNION { {<<e>> \o rest : rest \in extend(len - 1, left - Len(e.Stats))}
                           : e \in upTo(left) }
    IN {r \in extend(MaxEntities, total) : DistinctRates(r)}

OfKind(ranking, k) == SelectSeq(ranking, LAMBDA e : e.kind = k)

\* The decoded report: one ranked list per kind, and the two optional blocks.
MkReport(ranking, f, e) ==
    LET apps == OfKind(ranking, "app")
        users == OfKind(ranking, "user")
        groups == OfKind(ranking, "group")
    IN [AppStats |-> [i \in 1..Len(apps) |-> [AppName |-> apps[i].id, Stats |-> apps[i].Stats]],
        UserStats |-> [i \in 1..Len(users) |-> [Uid |-> users[i].id, Stats |-> users[i].Stats]],
        GroupStats |-> [i \in 1..Len(groups) |-> [Gid |-> groups[i].id, Stats |-> groups[i].Stats]],
        FstLimitsUpdateThreadLoopStats |-> f,
        EstimatorsUpdateThreadLoopStats |-> e]

EmptyReport == MkReport(<<>>, <<>>, <<>>)

\* The reports of the model: at most MaxTotal items (RateStats and thread loop
\* blocks) in one report.
Reports(b) ==
    UNION { {MkReport(r, f, e) : r \in Rankings(b, MaxTotal - Len(f) - Len(e))}
              : f \in OptLoopStats(b), e \in OptLoopStats(b) }

ReportsPart000 == Reports("part_000")
ReportsMain1 == Reports("main_1")
ReportsMain228 == Reports("main_228")

ReportsOf(b) ==
    CASE b = "part_000" -> ReportsPart000
      [] b = "main_1" -> ReportsMain1
      [] OTHER -> ReportsMain228

\* Reports in which an application named "1001", the user 1001 and the group
\* 1001 each appear or not, each with one RateStats of the same window; the
\* rates are drawn from three pairs so that the three can all differ.
KindProfiles ==
    Profiles \cup { [r |-> 4096, w |-> 512, ro |-> 0, wo |-> 0, has |-> FALSE] }

KindStats(b) ==
    { <<[Window |-> w, BytesReadPerSec |-> p.r, BytesWrittenPerSec |-> p.w,
         IopsRead |-> p.ro, IopsWrite |-> p.wo, iopsOnWire |-> p.has]>>
        : w \in Windows(b), p \in KindProfiles }

KindReports(b) ==
    { [AppStats |-> a, UserStats |-> u, GroupStats |-> g,
       FstLimitsUpdateThreadLoopStats |-> <<>>,
       EstimatorsUpdateThreadLoopStats |-> <<>>] :
        a \in {<<>>} \cup {<<[AppName |-> "1001", Stats |-> st]>> : st \in KindStats(b)},
        u \in {<<>>} \cup {<<[Uid |-> 1001, Stats |-> st]>> : st \in KindStats(b)},
        g \in {<<>>} \cup (IF HasGroups(b)
                            THEN {<<[Gid |-> 1001, Stats |-> st]>> : st \in KindStats(b)}
                            ELSE {}) }

KindReportsPart000 == KindReports("part_000")

-----------------------------------------------------------------------------
(* The gauge vectors (prometheus.GaugeVec) *)

EmptyVec == [k \in {} |-> 0]

\* Mutant of SetValue: a gauge that already exists keeps its value.
SetValueKeepFirst(vec, labels, v) ==
    [k \in DOMAIN vec \cup {labels} |-> IF k \in DOMAIN vec THEN vec[k] ELSE v]

\* Mutant of SetValue: Add(v) in place of Set(v).
SetValueAdd(vec, labels, v) ==
    [k \in DOMAIN vec \cup {labels} |->
        IF k = labels THEN (IF k \in DOMAIN vec THEN vec[k] + v ELSE v) ELSE vec[k]]

\* vec.WithLabelValues(labels...).Set(v): creates the gauge if absent, stores v.
SetValue(vec, labels, v) ==
    [k \in DOMAIN vec \cup {labels} |-> IF k = labels THEN v ELSE vec[k]]

ResetCall(f) == [call |-> "Reset", family |-> f, labels |-> <<>>, value |-> 0]
SetCall(f, labels, v) == [call |-> "Set", family |-> f, labels |-> labels, value |-> v]

\* The effect of one call on the vectors.
Apply(reg, c) ==
    IF c.call = "Reset" THEN [reg EXCEPT ![c.family] = EmptyVec]
    ELSE [reg EXCEPT ![c.family] = SetValue(@, c.labels, c.value)]

-----------------------------------------------------------------------------
(* The calls of one iteration of the loop of runMonitor, in program order *)

\* Mutant of exportMetric: writeBytes is set before readBytes.
exportMetricWriteFirst(b, eType, id, win, s) ==
    <<SetCall("writeBytes", <<eType, id, win>>, s.BytesWrittenPerSec),
      SetCall("readBytes", <<eType, id, win>>, s.BytesReadPerSec)>>
    \o (IF HasIops(b)
        THEN <<SetCall("readOps", <<eType, id, win>>, s.IopsRead),
               SetCall("writeOps", <<eType, id, win>>, s.IopsWrite)>>
        ELSE <<>>)

\* exportMetric
exportMetric(b, eType, id, win, s) ==
    <<SetCall("readBytes", <<eType, id, win>>, s.BytesReadPerSec),
      SetCall("writeBytes", <<eType, id, win>>, s.BytesWrittenPerSec)>>
    \o (IF HasIops(b)
        THEN <<SetCall("readOps", <<eType, id, win>>, s.IopsRead),
               SetCall("writeOps", <<eType, id, win>>, s.IopsWrite)>>
        ELSE <<>>)

\* for _, s := range entry.Stats { exportMetric(eType, id, s.Window.String(), s) }
RECURSIVE exportStats(_, _, _, _)
exportStats(b, eType, id, stats) ==
    IF stats = <<>> THEN <<>>
    ELSE exportMetric(b, eType, id, WindowString(b, Head(stats).Window), Head(stats))
         \o exportStats(b, eType, id, Tail(stats))

RECURSIVE exportApps(_, _)
exportApps(b, stats) ==
    IF stats = <<>> THEN <<>>
    ELSE exportStats(b, AppLabel(b), Head(stats).AppName, Head(stats).Stats)
         \o exportApps(b, Tail(stats))

RECURSIVE exportUsers(_, _)
exportUsers(b, stats) ==
    IF stats = <<>> THEN <<>>
    ELSE exportStats(b, UserLabel(b), Itoa(Head(stats).Uid), Head(stats).Stats)
         \o exportUsers(b, Tail(stats))

RECURSIVE exportGroups(_, _)
exportGroups(b, stats) ==
    IF stats = <<>> THEN <<>>
    ELSE exportStats(b, GroupLabel(b), Itoa(Head(stats).Gid), Head(stats).Stats)
         \o exportGroups(b, Tail(stats))

printAndExportApps(b, stats) == IF Len(stats) = 0 THEN <<>> ELSE exportApps(b, stats)
printAndExportUsers(b, stats) == IF Len(stats) = 0 THEN <<>> ELSE exportUsers(b, stats)
printAndExportGroups(b, stats) == IF Len(stats) = 0 THEN <<>> ELSE exportGroups(b, stats)

\* if st := report.<Loop>ThreadLoopStats; st != nil { three Sets }
exportLoopStats(loop, st) ==
    IF st = <<>> THEN <<>>
    ELSE <<SetCall("threadLoopMicros", <<loop, "mean">>, st[1].MeanElapsedTimeMicroSec),
           SetCall("threadLoopMicros", <<loop, "min">>, st[1].MinElapsedTimeMicroSec),
           SetCall("threadLoopMicros", <<loop, "max">>, st[1].MaxElapsedTimeMicroSec)>>

\* Mutant of resetMetrics: writeBytes.Reset() is left out.
resetReadBytesOnly(b) == <<ResetCall("readBytes")>>

\* readBytes.Reset(); writeBytes.Reset()
resetMetrics(b) == <<ResetCall("readBytes"), ResetCall("writeBytes")>>

\* The body of the for loop of runMonitor after a successful Recv.
LoopBody(b, r) ==
    (IF HasThreadLoop(b)
     THEN exportLoopStats("fst_limits", r.FstLimitsUpdateThreadLoopStats)
          \o exportLoopStats("estimators", r.EstimatorsUpdateThreadLoopStats)
     ELSE <<>>)
    \o resetMetrics(b)
    \o printAndExportApps(b, r.AppStats)
    \o printAndExportUsers(b, r.UserStats)
    \o (IF HasGroups(b) THEN printAndExportGroups(b, r.GroupStats) ELSE <<>>)

\* The vectors after the calls of a sequence, made in order.
RECURSIVE ApplyAll(_, _)
ApplyAll(reg, calls) ==
    IF calls = <<>> THEN reg ELSE ApplyAll(Apply(reg, Head(calls)), Tail(calls))

\* One flag per call of calls: TRUE for the first call only.
FirstOnly(calls) == [i \in 1..Len(calls) |-> i = 1]

\* For each call of LoopBody(b, r): does the code write to os.Stdout after
\* the call before it (or after Recv) and before this call?  The header
\* (fmt.Print, fmt.Printf) and the Printf of the first thread loop block come
\* before the first Set of that block, the Printf of the second block before
\* its first Set, fmt.Println() or the header before readBytes.Reset(), and
\* the title of a ranked list (with the Flush and Println of the list before
\* it) before the first Set of that list.  Rows go to the tabwriter's buffer.
ConsoleBefore(b, r) ==
    (IF HasThreadLoop(b)
     THEN FirstOnly(exportLoopStats("fst_limits", r.FstLimitsUpdateThreadLoopStats))
          \o FirstOnly(exportLoopStats("estimators", r.EstimatorsUpdateThreadLoopStats))
     ELSE <<>>)
    \o FirstOnly(resetMetrics(b))
    \o FirstOnly(printAndExportApps(b, r.AppStats))
    \o FirstOnly(printAndExportUsers(b, r.UserStats))
    \o (IF HasGroups(b) THEN FirstOnly(printAndExportGroups(b, r.GroupStats)) ELSE <<>>)

\* Does the code write to os.Stdout after the last call of LoopBody(b, r)?
\* w.Flush() and fmt.Println() end every ranked list that is not empty.
ConsoleAfter(b, r) ==
    \/ Len(r.AppStats) # 0
    \/ Len(r.UserStats) # 0
    \/ HasGroups(b) /\ Len(r.GroupStats) # 0

\* The <<family, labels>> pairs the vectors hold.
Held(reg) == UNION {{f} \X DOMAIN reg[f] : f \in DOMAIN reg}

\* The <<family, labels>> pairs that the reduction of r sets.
WrittenBy(b, r) ==
    LET calls == LoopBody(b, r)
    IN  {<<calls[i].family, calls[i].labels>> :
            i \in {j \in 1..Len(calls) : calls[j].call = "Set"}}

-----------------------------------------------------------------------------
(* humanizeBytes *)

\* A float64 argument: NaN, an infinity, or the number m * 1024^e (m an
\* integer below 1024^3 in size).  Dividing such a number by 1024 is exact in
\* float64, so val is always of this form.
Float(m, e) == [k |-> "num", m |-> m, e |-> e]
NaN == [k |-> "nan", m |-> 0, e |-> 0]
PlusInf == [k |-> "+inf", m |-> 0, e |-> 0]
MinusInf == [k |-> "-inf", m |-> 0, e |-> 0]

Mantissas == {1, 2, 1023, 1024, 1025, 2048, 1048575, 1048576, 1048577}
Exponents == {-1, 0, 1, 2, 3, 4, 5}

HumanizeInputs ==
    {Float(m, e) : m \in Mantissas, e \in Exponents}
    \cup {Float(0, 0), Float(-1, 0), Float(-2048, 0), NaN, PlusInf, MinusInf}

\* Mutant of Ge1024: val > 1024.
Gt1024(v) ==
    CASE v.k = "nan" -> FALSE
      [] v.k = "+inf" -> TRUE
      [] v.k = "-inf" -> FALSE
      [] OTHER -> IF v.e >= 2 THEN v.m >= 1
                  ELSE IF v.e = 1 THEN v.m >= 2
                  ELSE IF v.e = 0 THEN v.m > 1024
                  ELSE IF v.e = -1 THEN v.m > 1048576
                  ELSE FALSE

\* val >= 1024
Ge1024(v) ==
    CASE v.k = "nan" -> FALSE
      [] v.k = "+inf" -> TRUE
      [] v.k = "-inf" -> FALSE
      [] OTHER -> IF v.e >= 1 THEN v.m >= 1
                  ELSE IF v.e = 0 THEN v.m >= 1024
                  ELSE IF v.e = -1 THEN v.m >= 1048576
                  ELSE FALSE

\* val /= 1024
Div1024(v) == IF v.k = "num" THEN [v EXCEPT !.e = @ - 1] ELSE v

\* sizes := []string{"B", "KB", "MB", "GB", "TB"}
sizes == <<"B", "KB", "MB", "GB", "TB">>

RECURSIVE Pow1024(_)
Pow1024(n) == IF n = 0 THEN 1 ELSE 1024 * Pow1024(n - 1)

TwoDigits(n) == IF n < 10 THEN "0" \o NatString(n) ELSE NatString(n)

\* The hundredths of n / d, rounded to nearest, ties to even (n >= 0, d > 0).
Hundredths(n, d) ==
    LET q == (n * 100) \div d
        rem == (n * 100) % d
    IN IF 2 * rem > d \/ (2 * rem = d /\ q % 2 = 1) THEN q + 1 ELSE q

\* fmt.Sprintf("%.2f", v)
Fixed2(v) ==
    CASE v.k = "nan" -> "NaN"
      [] v.k = "+inf" -> "+Inf"
      [] v.k = "-inf" -> "-Inf"
      [] OTHER ->
           IF v.e >= 0 THEN Itoa(v.m * Pow1024(v.e)) \o ".00"
           ELSE LET h == Hundredths(v.m, Pow1024(-v.e))
                IN NatString(h \div 100) \o "." \o TwoDigits(h % 100)

-----------------------------------------------------------------------------
(* The process *)

\* part_000:56-60: the goroutine is started when the flag named
\* enable-prometheus is false; main.go:55 and main.go:294 start it always.
EndpointStarted(b, flag) == IF b = "part_000" THEN ~flag ELSE TRUE

Running == exitCause = ""

Init ==
    /\ build \in Builds
    /\ enableFlag \in (IF build = "part_000" THEN BOOLEAN ELSE {FALSE})
    /\ mainPc = "main"
    /\ httpPc = "off"
    /\ exitCause = ""
    /\ report = EmptyReport
    /\ ip = 1
    /\ registry = [f \in Families(build) |-> EmptyVec]
    /\ scraped = <<>>
    /\ stale = {}
    /\ firstCall = [f \in Families(build) |-> "none"]
    /\ reduced = FALSE
    /\ repeated = FALSE
    /\ prevRegistry = [f \in Families(build) |-> EmptyVec]
    /\ hPc = "idle" /\ hIn = Float(0, 0) /\ hVal = Float(0, 0) /\ hI = 0 /\ hOut = ""

\* log.Fatal / log.Fatalf: os.Exit(1) ends every goroutine and the process's
\* memory, the vectors included, is gone.
Exit(cause) ==
    /\ exitCause' = cause
    /\ mainPc' = "exited"
    /\ httpPc' = "exited"
    /\ report' = EmptyReport
    /\ ip' = 1
    /\ registry' = [f \in Families(build) |-> EmptyVec]
    /\ scraped' = <<>>
    /\ stale' = {}
    /\ firstCall' = [f \in Families(build) |-> "none"]
    /\ reduced' = FALSE
    /\ repeated' = FALSE
    /\ prevRegistry' = [f \in Families(build) |-> EmptyVec]
    /\ UNCHANGED <<hvars, build, enableFlag>>

\* main: flag.Parse(), then `go func() { ... }()` if the endpoint is enabled.
StartEndpoint ==
    /\ Running /\ mainPc = "main"
    /\ httpPc' = IF EndpointStarted(build, enableFlag) THEN "spawned" ELSE "off"
    /\ mainPc' = "dial"
    /\ scraped' = <<>>
    /\ UNCHANGED <<hvars, build, enableFlag, exitCause, report, ip, registry,
                   stale, firstCall, reduced, repeated, prevRegistry>>

\* main: grpc.NewClient / grpc.Dial; an error is fatal.
Dial ==
    /\ Running /\ mainPc = "dial"
    /\ \/ /\ mainPc' = "open"
          /\ scraped' = <<>>
          /\ UNCHANGED <<hvars, build, enableFlag, httpPc, exitCause, report, ip, registry,
                         stale, firstCall, reduced, repeated, prevRegistry>>
       \/ Exit("did not connect")

\* runMonitor: client.TrafficShapingRate / client.StreamRates; an error is fatal.
OpenStream ==
    /\ Running /\ mainPc = "open"
    /\ \/ /\ mainPc' = "loop"
          /\ scraped' = <<>>
          /\ UNCHANGED <<hvars, build, enableFlag, httpPc, exitCause, report, ip, registry,
                         stale, firstCall, reduced, repeated, prevRegistry>>
       \/ Exit("Error opening stream")

\* runMonitor: the top of `for {`: stream.Recv() is called and blocks until
\* the server sends a report or the stream ends.
CallRecv ==
    /\ Running /\ mainPc = "loop"
    /\ mainPc' = "recv"
    /\ repeated' = FALSE
    /\ prevRegistry' = registry
    /\ scraped' = <<>>
    /\ UNCHANGED <<hvars, build, enableFlag, httpPc, exitCause, report, ip, registry,
                   stale, firstCall, reduced>>

\* Mutant of Recv: the next report is taken while the loop body still runs.
RecvEarly ==
    /\ Running /\ mainPc \in {"recv", "reduce"}
    /\ \E r \in ReportsOf(build) :
          /\ report' = r
          /\ repeated' = (reduced /\ r = report)
    /\ mainPc' = "reduce"
    /\ ip' = 1
    /\ stale' = Held(registry) \ WrittenBy(build, report)
    /\ firstCall' = [f \in DOMAIN firstCall |-> "none"]
    /\ scraped' = <<>>
    /\ UNCHANGED <<hvars, build, enableFlag, httpPc, exitCause, registry, reduced,
                   prevRegistry>>

\* runMonitor: report, err := stream.Recv() returns with err == nil.
Recv ==
    /\ Running /\ mainPc = "recv"
    /\ \E r \in ReportsOf(build) :
          /\ report' = r
          /\ repeated' = (reduced /\ r = report)
    /\ mainPc' = "reduce"
    /\ ip' = 1
    /\ stale' = Held(registry) \ WrittenBy(build, report)
    /\ firstCall' = [f \in DOMAIN firstCall |-> "none"]
    /\ scraped' = <<>>
    /\ UNCHANGED <<hvars, build, enableFlag, httpPc, exitCause, registry, reduced,
                   prevRegistry>>

\* Mutant of RecvError: the stream is opened again after a failed Recv.
RecvErrorReopens ==
    /\ Running /\ mainPc = "recv"
    /\ mainPc' = "open"
    /\ scraped' = <<>>
    /\ UNCHANGED <<hvars, build, enableFlag, httpPc, exitCause, report, ip, registry,
                   stale, firstCall, reduced, repeated, prevRegistry>>

\* Recv, the server sending reports of KindReports.
RecvKinds ==
    /\ Running /\ mainPc = "recv"
    /\ \E r \in KindReportsPart000 :
          /\ report' = r
          /\ repeated' = (reduced /\ r = report)
    /\ mainPc' = "reduce"
    /\ ip' = 1
    /\ stale' = Held(registry) \ WrittenBy(build, report)
    /\ firstCall' = [f \in DOMAIN firstCall |-> "none"]
    /\ scraped' = <<>>
    /\ UNCHANGED <<hvars, build, enableFlag, httpPc, exitCause, registry, reduced,
                   prevRegistry>>

\* runMonitor: stream.Recv() returns with err != nil: log.Fatalf("Stream closed: ...").
RecvError ==
    /\ Running /\ mainPc = "recv"
    /\ Exit("Stream closed")

\* runMonitor: the next Reset or Set of the loop body; after the last one
\* the loop body ends.
GaugeCall ==
    /\ Running /\ mainPc = "reduce"
    /\ LET body == LoopBody(build, report)
           c == body[ip]
       IN /\ registry' = Apply(registry, c)
          /\ stale' = IF c.call = "Reset" THEN {e \in stale : e[1] # c.family}
                       ELSE stale \ {<<c.family, c.labels>>}
          /\ firstCall' = IF firstCall[c.family] = "none"
                           THEN [firstCall EXCEPT ![c.family] = c.call]
                           ELSE firstCall
          /\ IF ip = Len(body)
             THEN /\ mainPc' = "loop"
                  /\ ip' = 1
                  /\ reduced' = TRUE
             ELSE /\ ip' = ip + 1
                  /\ UNCHANGED <<mainPc, reduced>>
    /\ scraped' = <<>>
    /\ UNCHANGED <<hvars, build, enableFlag, httpPc, exitCause, report,
                   repeated, prevRegistry>>

\* fmt.Print / fmt.Printf / fmt.Println / w.Flush() on os.Stdout while the
\* reader of the pipe behind it is gone: the write gets EPIPE and, for file
\* descriptor 1, the Go runtime ends the process with SIGPIPE.  (Any other
\* failure of a console write returns an error that the code drops, and the
\* loop body goes on as in GaugeCall.)
StdoutBroken ==
    /\ Running
    /\ \/ mainPc = "reduce" /\ ConsoleBefore(build, report)[ip]
       \/ mainPc = "loop" /\ reduced /\ ConsoleAfter(build, report)
    /\ Exit("SIGPIPE")

\* goroutine: http.Handle, then http.ListenAndServe starts accepting.
Listen ==
    /\ Running /\ httpPc = "spawned"
    /\ httpPc' = "listening"
    /\ scraped' = <<>>
    /\ UNCHANGED <<hvars, build, enableFlag, mainPc, exitCause, report, ip, registry,
                   stale, firstCall, reduced, repeated, prevRegistry>>

\* goroutine: http.ListenAndServe returns (it only returns an error, at once
\* when the port cannot be bound or later); log.Fatal ends the process.
ListenAndServeFails ==
    /\ Running /\ httpPc \in {"spawned", "listening"}
    /\ Exit("ListenAndServe")

\* Mutant of Scrape: a scrape during a loop body is answered from the
\* vectors as they were before that body started.
ScrapeIsolated ==
    /\ Running /\ httpPc = "listening"
    /\ scraped' = <<IF mainPc = "reduce" THEN prevRegistry ELSE registry>>
    /\ UNCHANGED <<hvars, build, enableFlag, mainPc, httpPc, exitCause, report, ip, registry,
                   stale, firstCall, reduced, repeated, prevRegistry>>

\* promhttp.Handler(): a GET /metrics gathers the registered vectors and
\* writes them to the client.
Scrape ==
    /\ Running /\ httpPc = "listening"
    /\ scraped' = <<registry>>
    /\ UNCHANGED <<hvars, build, enableFlag, mainPc, httpPc, exitCause, report, ip, registry,
                   stale, firstCall, reduced, repeated, prevRegistry>>

Next ==
    \/ StartEndpoint
    \/ Dial
    \/ OpenStream
    \/ CallRecv
    \/ Recv
    \/ RecvError
    \/ GaugeCall
    \/ StdoutBroken
    \/ Listen
    \/ ListenAndServeFails
    \/ Scrape

Spec == Init /\ [][Next]_vars

\* The current revision alone.
InitCurrent == Init /\ build = "part_000"
SpecCurrent == InitCurrent /\ [][Next]_vars

\* The current revision fed with the reports of KindReports.
NextKinds ==
    \/ StartEndpoint
    \/ Dial
    \/ OpenStream
    \/ CallRecv
    \/ RecvKinds
    \/ RecvError
    \/ GaugeCall
    \/ StdoutBroken
    \/ Listen
    \/ ListenAndServeFails
    \/ Scrape

SpecKinds == InitCurrent /\ [][NextKinds]_vars

\* One call humanizeBytes(s) on its own, the process not yet started:
\* i := 0; val := s.
InitHumanize ==
    /\ build = "part_000"
    /\ enableFlag = FALSE
    /\ mainPc = "main"
    /\ httpPc = "off"
    /\ exitCause = ""
    /\ report = EmptyReport
    /\ ip = 1
    /\ registry = [f \in Families(build) |-> EmptyVec]
    /\ scraped = <<>>
    /\ stale = {}
    /\ firstCall = [f \in Families(build) |-> "none"]
    /\ reduced = FALSE
    /\ repeated = FALSE
    /\ prevRegistry = [f \in Families(build) |-> EmptyVec]
    /\ hPc = "loop"
    /\ hIn \in HumanizeInputs
    /\ hVal = hIn
    /\ hI = 0
    /\ hOut = ""

\* for val >= 1024 && i < len(sizes)-1 { val /= 1024; i++ }
HumanizeIterate ==
    /\ hPc = "loop"
    /\ Ge1024(hVal) /\ hI < Len(sizes) - 1
    /\ hVal' = Div1024(hVal)
    /\ hI' = hI + 1
    /\ UNCHANGED <<hPc, hIn, hOut>>
    /\ UNCHANGED <<build, enableFlag, mainPc, httpPc, exitCause, report, ip, registry,
                   scraped, stale, firstCall, reduced, repeated, prevRegistry>>

\* The loop condition is false: return fmt.Sprintf("%.2f %s", val, sizes[i]).
HumanizeReturn ==
    /\ hPc = "loop"
    /\ ~(Ge1024(hVal) /\ hI < Len(sizes) - 1)
    /\ hOut' = Fixed2(hVal) \o " " \o sizes[hI + 1]
    /\ hPc' = "done"
    /\ UNCHANGED <<hIn, hVal, hI>>
    /\ UNCHANGED <<build, enableFlag, mainPc, httpPc, exitCause, report, ip, registry,
                   scraped, stale, firstCall, reduced, repeated, prevRegistry>>

NextHumanize ==
    \/ HumanizeIterate
    \/ HumanizeReturn

\* A call that has started keeps running: the code is sequential.
SpecHumanize == InitHumanize /\ [][NextHumanize]_vars /\ WF_vars(NextHumanize)

-----------------------------------------------------------------------------
(* What a report says, read off the message itself *)

\* The loop is blocked in stream.Recv() and has completed an iteration.
BetweenPasses == mainPc \in {"loop", "recv"} /\ reduced

\* The loop body has just ended: what is remembered of the report before and
\* of the vectors before the reduction is still at hand.
PassDone == mainPc = "loop" /\ reduced

\* The (entity_type, id, window) triples of the (entry, RateStats) pairs of r.
KeysOfReport(b, r) ==
    {<<AppLabel(b), e.AppName, WindowString(b, st.Window)>> :
        <<e, st>> \in UNION {{<<x, y>> : y \in Range(x.Stats)} : x \in Range(r.AppStats)}}
    \cup
    {<<UserLabel(b), Itoa(e.Uid), WindowString(b, st.Window)>> :
        <<e, st>> \in UNION {{<<x, y>> : y \in Range(x.Stats)} : x \in Range(r.UserStats)}}
    \cup
    (IF HasGroups(b)
     THEN {<<GroupLabel(b), Itoa(e.Gid), WindowString(b, st.Window)>> :
            <<e, st>> \in UNION {{<<x, y>> : y \in Range(x.Stats)} : x \in Range(r.GroupStats)}}
     ELSE {})

-----------------------------------------------------------------------------
(* C1 *)

\* C1: once the reduction of a report has completed, every exported
\* entity-rate family (bytes read, bytes written, and the IOPS families in the
\* revision that exports them) holds exactly the keys of that report.
C1_ExactKeys ==
    BetweenPasses =>
        \A f \in Range(EntityFamilies(build)) :
            DOMAIN registry[f] = KeysOfReport(build, report)

-----------------------------------------------------------------------------
(* C2 *)

\* C2: in every iteration, no family receives a Set before it has been
\* Reset in that same iteration.
C2_ClearBeforeSet ==
    \A f \in DOMAIN firstCall : firstCall[f] # "Set"

-----------------------------------------------------------------------------
(* C3 *)

ThreadLoops == {"fst_limits", "estimators"}
ThreadStats == {"mean", "min", "max"}

BlockOf(r, loop) ==
    IF loop = "fst_limits" THEN r.FstLimitsUpdateThreadLoopStats
    ELSE r.EstimatorsUpdateThreadLoopStats

\* C3: once the reduction of a report has completed, the thread loop family
\* holds (loop, statistic) if and only if the report carried the block of
\* that loop.
C3_ThreadLoopExact ==
    (BetweenPasses /\ HasThreadLoop(build)) =>
        \A loop \in ThreadLoops, st \in ThreadStats :
            (<<loop, st>> \in DOMAIN registry["threadLoopMicros"])
                <=> (BlockOf(report, loop) # <<>>)

-----------------------------------------------------------------------------
(* C4 *)

\* C4: a scrape, wherever it lands, is never answered with a key that was
\* last written during the reduction of a report older than the previous one.
C4_ScrapeNeverStale ==
    scraped # <<>> =>
        Held(scraped[1]) \cap stale = {}

-----------------------------------------------------------------------------
(* C5 *)

\* The keys of r for which no RateStats of r carries IOPS values.
KeysWithoutIops(b, r) ==
    KeysOfReport(b, r) \
        KeysOfReport(b, [r EXCEPT
            !.AppStats = [i \in DOMAIN @ |->
                [@[i] EXCEPT !.Stats = SelectSeq(@, LAMBDA st : st.iopsOnWire)]],
            !.UserStats = [i \in DOMAIN @ |->
                [@[i] EXCEPT !.Stats = SelectSeq(@, LAMBDA st : st.iopsOnWire)]],
            !.GroupStats = [i \in DOMAIN @ |->
                [@[i] EXCEPT !.Stats = SelectSeq(@, LAMBDA st : st.iopsOnWire)]]])

\* C5: once the reduction of a report has completed, the IOPS families hold
\* no entry, not even 0, at the key of a RateStats that carried no IOPS value.
C5_NoPhantomIops ==
    (BetweenPasses /\ HasIops(build)) =>
        \A k \in KeysWithoutIops(build, report) :
            /\ k \notin DOMAIN registry["readOps"]
            /\ k \notin DOMAIN registry["writeOps"]

-----------------------------------------------------------------------------
(* C6 *)

RECURSIVE RowsOfStats(_, _, _, _)
RowsOfStats(b, eType, id, stats) ==
    IF stats = <<>> THEN <<>>
    ELSE <<[labels |-> <<eType, id, WindowString(b, Head(stats).Window)>>,
            stat |-> Head(stats)]>>
         \o RowsOfStats(b, eType, id, Tail(stats))

RECURSIVE RowsOfEntries(_, _, _)
RowsOfEntries(b, eType, entries) ==
    IF entries = <<>> THEN <<>>
    ELSE RowsOfStats(b, eType, Head(entries).id, Head(entries).Stats)
         \o RowsOfEntries(b, eType, Tail(entries))

\* The (key, RateStats) pairs of r in processing order: kinds Application,
\* User, Group, then rank order, then sample order.
Rows(b, r) ==
    RowsOfEntries(b, AppLabel(b),
        [i \in DOMAIN r.AppStats |-> [id |-> r.AppStats[i].AppName, Stats |-> r.AppStats[i].Stats]])
    \o RowsOfEntries(b, UserLabel(b),
        [i \in DOMAIN r.UserStats |-> [id |-> Itoa(r.UserStats[i].Uid), Stats |-> r.UserStats[i].Stats]])
    \o (IF HasGroups(b)
        THEN RowsOfEntries(b, GroupLabel(b),
               [i \in DOMAIN r.GroupStats |->
                    [id |-> Itoa(r.GroupStats[i].Gid), Stats |-> r.GroupStats[i].Stats]])
        ELSE <<>>)

\* The quantity of a RateStats that family f exports.
Quantity(f, st) ==
    CASE f = "readBytes" -> st.BytesReadPerSec
      [] f = "writeBytes" -> st.BytesWrittenPerSec
      [] f = "readOps" -> st.IopsRead
      [] f = "writeOps" -> st.IopsWrite

\* The quantity of the last row of r that maps to key k.
LastValue(b, r, f, k) ==
    LET rows == Rows(b, r)
        last == CHOOSE i \in 1..Len(rows) :
                    /\ rows[i].labels = k
                    /\ \A j \in (i + 1)..Len(rows) : rows[j].labels # k
    IN Quantity(f, rows[last].stat)

\* C6: once the reduction of a report has completed, every entity-rate
\* family holds, at each key of the report, the value of the last-processed
\* RateStats of the report that maps to the key.
C6_LastWriteWins ==
    BetweenPasses =>
        \A f \in Range(EntityFamilies(build)) :
            \A k \in KeysOfReport(build, report) :
                /\ k \in DOMAIN registry[f]
                /\ registry[f][k] = LastValue(build, report, f, k)

\* Two RateStats of the reduced report share a key and differ in every
\* bytes quantity, and the reduction has completed.
C6_Witness ==
    /\ BetweenPasses
    /\ \E i, j \in 1..Len(Rows(build, report)) :
          LET rows == Rows(build, report) IN
          /\ i < j
          /\ rows[i].labels = rows[j].labels
          /\ rows[i].stat.BytesReadPerSec # rows[j].stat.BytesReadPerSec
          /\ rows[i].stat.BytesWrittenPerSec # rows[j].stat.BytesWrittenPerSec
          /\ registry["readBytes"][rows[j].labels] = rows[j].stat.BytesReadPerSec

-----------------------------------------------------------------------------
(* C7 *)

KindLabels(b) ==
    {AppLabel(b), UserLabel(b)} \cup (IF HasGroups(b) THEN {GroupLabel(b)} ELSE {})

ListOf(b, r, kind) ==
    CASE kind = AppLabel(b) -> r.AppStats
      [] kind = UserLabel(b) -> r.UserStats
      [] OTHER -> r.GroupStats

\* C7: while a report with an empty ranked list for a kind is reduced, no
\* call the loop body is about to make is a Set for that kind; the entity
\* families are still Reset, and once the reduction has completed no family
\* holds a key of that kind.
C7_EmptyKindCleared ==
    \A kind \in KindLabels(build) :
        ListOf(build, report, kind) = <<>> =>
            /\ mainPc = "reduce" =>
                  LET c == LoopBody(build, report)[ip] IN
                  c.call = "Set" => c.labels[1] # kind
            /\ BetweenPasses =>
                  /\ \A f \in Range(EntityFamilies(build)) : firstCall[f] = "Reset"
                  /\ \A <<f, k>> \in Held(registry) : k[1] # kind

\* The report just reduced has no Application entry, and the report before
\* it had left an Application key in both bytes families.
C7_Witness ==
    /\ PassDone
    /\ report.AppStats = <<>>
    /\ \E k \in DOMAIN prevRegistry["readBytes"] :
          k[1] = AppLabel(build) /\ k \in DOMAIN prevRegistry["writeBytes"]

-----------------------------------------------------------------------------
(* C8 *)

\* C8: reducing a report equal to the one reduced just before it leaves
\* every family as the first reduction left it.
C8_Idempotent ==
    (PassDone /\ repeated) => registry = prevRegistry

\* The same report has been reduced twice in a row, it had RateStats and a
\* thread loop block, and the family that is never Reset holds more than it.
C8_Witness ==
    /\ PassDone /\ repeated
    /\ KeysOfReport(build, report) # {}
    /\ HasThreadLoop(build)
    /\ report.FstLimitsUpdateThreadLoopStats # <<>>
    /\ report.EstimatorsUpdateThreadLoopStats = <<>>
    /\ <<"estimators", "mean">> \in DOMAIN registry["threadLoopMicros"]

-----------------------------------------------------------------------------
(* C9 *)

\* C9: no scrape is answered before the connection to the source has been
\* established.  (A process that answers no scrape before the stream is open
\* has, in particular, answered none when it ends for failing to open it.)
C9_NoScrapeBeforeConnect ==
    scraped # <<>> => mainPc \in {"loop", "recv", "reduce"}

-----------------------------------------------------------------------------
(* C10 *)

\* C10: the process ends only because the source was lost: the connection
\* was never established, or the stream was closed or returned an error.
C10_OnlySourceLossExits ==
    exitCause \in {"", "did not connect", "Error opening stream", "Stream closed"}

-----------------------------------------------------------------------------
(* C11 *)

\* C11: a stream.Recv() that does not return a report ends the process: the
\* main goroutine leaves the blocked Recv only into the loop body (a report
\* was returned) or into the end of the process, both goroutines included;
\* and once the process has ended with "Stream closed" nothing happens any
\* more: no stream is opened, no report is received, no vector is touched.
C11_RecvErrorTerminates ==
    [][ /\ (mainPc = "recv" /\ mainPc' # "recv" /\ mainPc' # "reduce") =>
              (mainPc' = "exited" /\ httpPc' = "exited" /\ exitCause' # "")
        /\ exitCause = "Stream closed" => FALSE ]_vars

\* The process has ended because stream.Recv() returned an error.
C11_Witness ==
    exitCause = "Stream closed" /\ mainPc = "exited" /\ httpPc = "exited"

-----------------------------------------------------------------------------
(* C12 *)

\* C12: reports are reduced one at a time and each once: the report changes
\* only when the blocked stream.Recv() returns, the loop body is entered only
\* from there and at its first call, and while it runs every step of the main
\* goroutine makes exactly the next call of the body of that report, the
\* body ending after its last call; outside the loop body no vector changes.
C12_OneAtATime ==
    [][ /\ report' # report =>
              \/ mainPc = "recv" /\ mainPc' = "reduce" /\ ip' = 1
              \/ mainPc' = "exited"
        /\ (mainPc' = "reduce" /\ mainPc # "reduce") => mainPc = "recv"
        /\ (mainPc = "reduce" /\ mainPc' # "exited") =>
              LET body == LoopBody(build, report) IN
              \/ UNCHANGED <<mainPc, ip, registry, report>>
              \/ /\ registry' = Apply(registry, body[ip])
                 /\ report' = report
                 /\ IF ip < Len(body) THEN mainPc' = "reduce" /\ ip' = ip + 1
                                      ELSE mainPc' = "loop"
        /\ (mainPc # "reduce" /\ mainPc' # "exited") => registry' = registry ]_vars

\* A second report, with RateStats, is being reduced after the loop body of
\* the report before it has ended.
C12_Witness ==
    /\ mainPc = "reduce" /\ reduced /\ ip > 1
    /\ KeysOfReport(build, report) # {}

-----------------------------------------------------------------------------
(* C13 *)

\* C13: nothing ends the process while a loop body runs: a report that has
\* been received has every call of its body made.
C13_RunsToCompletion ==
    [][ mainPc = "reduce" => mainPc' # "exited" ]_vars

-----------------------------------------------------------------------------
(* C14 *)

\* C14: no failure of a console write keeps the loop from finishing the
\* body and receiving the next report.
C14_ConsoleFailureHarmless ==
    exitCause # "SIGPIPE"

-----------------------------------------------------------------------------
(* C15 *)

\* C15: a scrape is answered with the vectors as they are at that point of
\* the loop body, not with a state between two bodies: during a body the
\* answer is the state before the body with exactly the calls made so far
\* applied to it.
C15_ScrapeSeesIntermediate ==
    scraped # <<>> =>
        /\ scraped[1] = registry
        /\ mainPc = "reduce" =>
              scraped[1] = ApplyAll(prevRegistry,
                                    SubSeq(LoopBody(build, report), 1, ip - 1))

\* A scrape answered between readBytes.Reset() and writeBytes.Reset():
\* readBytes is empty while writeBytes still holds every key of the report
\* before.
C15_Witness ==
    /\ scraped # <<>> /\ mainPc = "reduce"
    /\ firstCall["readBytes"] = "Reset" /\ firstCall["writeBytes"] = "none"
    /\ scraped[1]["readBytes"] = EmptyVec
    /\ scraped[1]["writeBytes"] # EmptyVec
    /\ scraped[1]["writeBytes"] = prevRegistry["writeBytes"]

-----------------------------------------------------------------------------
(* C16 *)

\* C16: once main is past the start of the endpoint, the goroutine of the
\* endpoint exists if and only if the flag enable-prometheus is true.
C16_EndpointIffEnabled ==
    mainPc \notin {"main", "exited"} => ((httpPc # "off") <=> enableFlag)

-----------------------------------------------------------------------------
(* C17 *)

\* C17: while the loop is between two bodies readBytes and writeBytes hold
\* the same label sets; while a body runs and both have been Reset, every
\* label set of writeBytes is one of readBytes.
C17_BytesKeysAligned ==
    /\ mainPc \in {"loop", "recv"} =>
          DOMAIN registry["readBytes"] = DOMAIN registry["writeBytes"]
    /\ (mainPc = "reduce" /\ firstCall["writeBytes"] = "Reset") =>
          DOMAIN registry["writeBytes"] \subseteq DOMAIN registry["readBytes"]

\* Between the two Sets of one exportMetric: readBytes has a label set that
\* writeBytes has not yet, and writeBytes already has another.
C17_Witness ==
    /\ mainPc = "reduce" /\ firstCall["writeBytes"] = "Reset"
    /\ DOMAIN registry["writeBytes"] # {}
    /\ DOMAIN registry["writeBytes"] # DOMAIN registry["readBytes"]

-----------------------------------------------------------------------------
(* C18 *)

\* The RateStats of the entries of r, applications first, then users, groups.
SamplesOf(r) ==
    [i \in 1..Len(r.AppStats) |-> r.AppStats[i].Stats[1]]
    \o [i \in 1..Len(r.UserStats) |-> r.UserStats[i].Stats[1]]
    \o [i \in 1..Len(r.GroupStats) |-> r.GroupStats[i].Stats[1]]

\* C18: once the reduction of a report in which an application, a user and
\* a group have the same identifier string and window has completed, each
\* bytes family holds as many keys as the report has entries, and for each
\* entry a key with that identifier that holds the rates of its RateStats.
C18_KindsKeepOwnKeys ==
    (BetweenPasses /\ report \in KindReportsPart000) =>
        LET samples == SamplesOf(report) IN
        /\ Cardinality(DOMAIN registry["readBytes"]) = Len(samples)
        /\ Cardinality(DOMAIN registry["writeBytes"]) = Len(samples)
        /\ \A i \in 1..Len(samples) :
              \E k \in DOMAIN registry["readBytes"] \cap DOMAIN registry["writeBytes"] :
                 /\ k[2] = "1001"
                 /\ registry["readBytes"][k] = samples[i].BytesReadPerSec
                 /\ registry["writeBytes"][k] = samples[i].BytesWrittenPerSec

\* The reduced report has application "1001", uid 1001 and gid 1001, and
\* their three RateStats differ in both rates.
C18_Witness ==
    /\ BetweenPasses /\ report \in KindReportsPart000
    /\ Len(SamplesOf(report)) = 3
    /\ \A i, j \in 1..3 :
          i # j => /\ SamplesOf(report)[i].BytesReadPerSec # SamplesOf(report)[j].BytesReadPerSec
                   /\ SamplesOf(report)[i].BytesWrittenPerSec # SamplesOf(report)[j].BytesWrittenPerSec

-----------------------------------------------------------------------------
(* C19 *)

\* v < 1024^j, for a number v = m * 1024^e with |m| < 1024^3.
Below(v, j) ==
    IF v.e >= j THEN v.m <= 0
    ELSE IF j - v.e >= 3 THEN TRUE
    ELSE v.m < Pow1024(j - v.e)

\* The smallest i in 0..4 with v / 1024^i < 1024, and 4 if there is none.
UnitIndex(v) ==
    IF \E i \in 0..4 : Below(v, i + 1)
    THEN CHOOSE i \in 0..4 : Below(v, i + 1) /\ \A j \in 0..(i - 1) : ~Below(v, j + 1)
    ELSE 4

\* What C19 says of every state of a call.
HumanizeRight ==
    /\ hI \in 0..4
    /\ (hPc = "done" /\ hIn.k = "num" /\ hIn.m >= 0) =>
          /\ hI = UnitIndex(hIn)
          /\ hOut = Fixed2(hVal) \o " " \o sizes[UnitIndex(hIn) + 1]
          /\ Below(hIn, 1) => (hVal = hIn /\ sizes[hI + 1] = "B")
    /\ (hPc = "done" /\ hIn = Float(0, 0)) => hOut = "0.00 B"
    /\ (hPc = "done" /\ hIn = Float(2048, 0)) => hOut = "2.00 KB"

\* C19: humanizeBytes returns for every argument; the index never leaves
\* 0..4; for a non-negative number the unit is the one of the smallest i in
\* 0..4 with s / 1024^i < 1024 (TB if there is none), a number below 1024 is
\* left undivided in B, 0 gives "0.00 B" and 2048 gives "2.00 KB".
C19_HumanizeBytes ==
    []HumanizeRight /\ <>(hPc = "done")

\* A call with an argument of 1024^5 or more has returned with the unit TB.
C19_Witness ==
    /\ hPc = "done" /\ hIn.k = "num" /\ hIn.e = 5 /\ hIn.m >= 1
    /\ hI = 4 /\ Ge1024(hVal)

====
